---- MODULE Spec2Model ----
(***************************************************************************)
(* sql-sugar: the template compiler (sqlify, sqlifyTemplate,               *)
(* trimParameters, Session.sql), the criteria compiler (objectCriteria),   *)
(* the property registry of Table and the transaction wrapper of Session.  *)
(*                                                                         *)
(* JavaScript values are tagged records:                                   *)
(*   [t |-> "num", n |-> 5]        a number                                *)
(*   [t |-> "str", s |-> <<..>>]   a string, as its sequence of characters *)
(*   [t |-> "null"]                null                                    *)
(*   [t |-> "undefined"]           undefined                               *)
(*   [t |-> "nan"]                 the number NaN                          *)
(*   [t |-> "arr", a |-> <<..>>]   an array                                *)
(*   [t |-> "obj", e |-> <<..>>]   an object, as its ordered <<key, value>>*)
(*                                 entries (Object.entries order)          *)
(*   [t |-> "tpl", callSite |-> <<..>>, substitutions |-> <<..>>]          *)
(*                                 a nest-literal template                 *)
(* Text (a JavaScript string) is a sequence of one-character strings.      *)
(***************************************************************************)
EXTENDS Integers, Sequences, FiniteSets, TLC

VARIABLES
    value,          \* sqlify: the argument
    literal,        \* sqlify: the returned raw template, or NotRun
    template,       \* Session.sql: the template object (mutable callSite/substitutions)
    original,       \* the template as Session.sql built it (history)
    tplIsArray,     \* whether a nest-literal template object passes Array.isArray
    runs,           \* Session.sql: what each execution handed to the driver
    debug,          \* Session.sql: what template.toString() returned, per call
    obj,            \* objectCriteria: the criteria object
    parameters,     \* objectCriteria: the property map handed in (Table.properties)
    criteria,       \* objectCriteria: the outcome (a template or a thrown error), or NotRun
    properties,     \* Table: this.properties, as the ordered list of <<name, descriptor>>
    options,        \* Table: the options given to the constructor
    lastCall,       \* Table: the last property/extends call and its outcome (history)
    txPc,           \* Session.transaction: position in the begin callback
    result,         \* Session.transaction: the local `result` (what fn resolved with)
    userError,      \* Session.transaction: the error caught, while rollback is awaited
    rolledBack,     \* Session.transaction: the rolledBack flag
    txLog,          \* Session.transaction: the calls made so far (history)
    txLeft,         \* Session.transaction: calls of transaction() still to make
    hasBind         \* whether the driver's Transaction objects have a bind method

vars == <<value, literal, template, original, tplIsArray, runs, debug,
          obj, parameters, criteria, properties, options, lastCall,
          txPc, result, userError, rolledBack, txLog, txLeft, hasBind>>

sqlifyVars == <<value, literal>>
templateVars == <<template, original, tplIsArray, runs, debug>>
criteriaVars == <<obj, parameters, criteria>>
tableVars == <<properties, options, lastCall>>
txVars == <<txPc, result, userError, rolledBack, txLog, txLeft, hasBind>>

NotRun == [t |-> "notrun"]

-----------------------------------------------------------------------------
(* Values and text *)

Num(n) == [t |-> "num", n |-> n]
Str(s) == [t |-> "str", s |-> s]
Null == [t |-> "null"]
Undefined == [t |-> "undefined"]
NaN == [t |-> "nan"]
IsNullish(v) == v.t \in {"null", "undefined"}
Arr(a) == [t |-> "arr", a |-> a]
Obj(e) == [t |-> "obj", e |-> e]
Tpl(cs, subs) == [t |-> "tpl", callSite |-> cs, substitutions |-> subs]
Thrown(name, msg) == [t |-> "error", name |-> name, message |-> msg]

IsTpl(v) == v.t = "tpl"
IsError(v) == v.t = "error"

Apostrophe == "'"

\* Concatenation of a sequence of texts, by halving (no deep recursion on long inputs).
RECURSIVE ConcatRange(_, _, _)
ConcatRange(texts, lo, hi) ==
    IF lo > hi THEN <<>>
    ELSE IF lo = hi THEN texts[lo]
    ELSE LET mid == (lo + hi) \div 2
         IN ConcatRange(texts, lo, mid) \o ConcatRange(texts, mid + 1, hi)

Concat(texts) == ConcatRange(texts, 1, Len(texts))

\* Array.prototype.join on an array of texts.
JoinText(texts, delim) ==
    Concat([i \in 1..(2 * Len(texts) - 1) |->
              IF i % 2 = 1 THEN texts[(i + 1) \div 2] ELSE delim])

\* String.prototype.split on a one-character separator.
RECURSIVE SplitFrom(_, _, _, _)
SplitFrom(s, sep, i, cur) ==
    IF i > Len(s) THEN <<cur>>
    ELSE IF s[i] = sep THEN <<cur>> \o SplitFrom(s, sep, i + 1, <<>>)
    ELSE SplitFrom(s, sep, i + 1, Append(cur, s[i]))

Split(s, sep) == SplitFrom(s, sep, 1, <<>>)

DigitChar(d) == <<"0", "1", "2", "3", "4", "5", "6", "7", "8", "9">>[d + 1]

RECURSIVE NatText(_)
NatText(n) == IF n < 10 THEN <<DigitChar(n)>>
              ELSE Append(NatText(n \div 10), DigitChar(n % 10))

\* Number.prototype.toString for integers.
NumberToString(n) == IF n < 0 THEN <<"-">> \o NatText(0 - n) ELSE NatText(n)

-----------------------------------------------------------------------------
(* nest-literal: nest, raw, join.with, toString *)

\* raw(x): a template made of the text alone, spliced verbatim when nested.
\* raw(null) renders as the text null.
raw(text) == Tpl(<<text>>, <<>>)

NullText == <<"n", "u", "l", "l">>
NaNText == <<"N", "a", "N">>
UndefinedText == <<"u", "n", "d", "e", "f", "i", "n", "e", "d">>

\* Two templates written one after the other.
JoinTpl(a, b) ==
    Tpl(SubSeq(a.callSite, 1, Len(a.callSite) - 1)
          \o <<a.callSite[Len(a.callSite)] \o b.callSite[1]>>
          \o SubSeq(b.callSite, 2, Len(b.callSite)),
        a.substitutions \o b.substitutions)

\* What the i-th item of a tagged-template call contributes: a literal fragment
\* (odd i), a nested template spliced in place, or one substituted value.
NestItem(callSite, substitutions, i) ==
    IF i % 2 = 1 THEN Tpl(<<callSite[(i + 1) \div 2]>>, <<>>)
    ELSE IF IsTpl(substitutions[i \div 2]) THEN substitutions[i \div 2]
    ELSE Tpl(<<<<>>, <<>>>>, <<substitutions[i \div 2]>>)

RECURSIVE NestRange(_, _, _, _)
NestRange(callSite, substitutions, lo, hi) ==
    IF lo = hi THEN NestItem(callSite, substitutions, lo)
    ELSE LET mid == (lo + hi) \div 2
         IN JoinTpl(NestRange(callSite, substitutions, lo, mid),
                    NestRange(callSite, substitutions, mid + 1, hi))

\* nest(callSite, ...substitutions): the flattened template. Nested templates are
\* merged into the text and their substitutions into the list, left to right.
nest(callSite, substitutions) ==
    NestRange(callSite, substitutions, 1, 2 * Len(substitutions) + 1)

\* String(v) of a scalar, as String.raw and Array.prototype.join apply it.
JsString(v) ==
    CASE v.t = "str" -> v.s
      [] v.t = "num" -> NumberToString(v.n)
      [] v.t = "nan" -> NaNText
      [] v.t = "undefined" -> UndefinedText
      [] OTHER -> NullText

\* template.toString(): the fragments with the remaining substitutions between them.
TemplateToString(tpl) ==
    Concat([i \in 1..(2 * Len(tpl.substitutions) + 1) |->
              IF i % 2 = 1 THEN tpl.callSite[(i + 1) \div 2]
              ELSE JsString(tpl.substitutions[i \div 2])])

\* join.with(delim): the reducer (a, b) => nest`${a}${raw(delim)}${b}`.
joinWith(a, b, delim) == nest(<<<<>>, <<>>, <<>>, <<>>>>, <<a, raw(delim), b>>)

-----------------------------------------------------------------------------
(* util: escapeField, sqlify, sqlifyTemplate, trimParameters *)

maxParams == 2100

escapeField(field) == raw(<<"[">> \o field \o <<"]">>)

sqlifyStringUnescaped(s) == <<"N", Apostrophe>> \o s \o <<Apostrophe>>

\* `N'${value.split("'").join("''")}'`
sqlifyString(s) ==
    <<"N", Apostrophe>> \o JoinText(Split(s, Apostrophe), <<Apostrophe, Apostrophe>>)
                        \o <<Apostrophe>>

\* The elements Array.prototype.map visits when the value passes Array.isArray:
\* an array's own, or a template's [callSite, ...substitutions].
ArrayElements(v) ==
    IF v.t = "arr" THEN v.a
    ELSE <<Arr([i \in 1..Len(v.callSite) |-> Str(v.callSite[i])])>> \o v.substitutions

RECURSIVE sqlify(_)
sqlify(v) ==
    CASE v.t = "str" -> raw(sqlifyString(v.s))
      [] v.t = "num" -> raw(NumberToString(v.n))
      [] v.t = "nan" -> raw(NaNText)
      [] v.t = "arr" \/ (v.t = "tpl" /\ tplIsArray) ->
            raw(JoinText([i \in 1..Len(ArrayElements(v)) |->
                            TemplateToString(sqlify(ArrayElements(v)[i]))],
                         <<",", " ">>))
      [] OTHER -> raw(NullText)

sqlifyTemplate(tpl) ==
    TemplateToString(nest(tpl.callSite,
                          [i \in 1..Len(tpl.substitutions) |-> sqlify(tpl.substitutions[i])]))

\* The substitutions array after the loop of trimParameters: the entries at
\* (0-based) index maxParams and beyond are overwritten by their literals.
TrimmedSubstitutions(tpl) ==
    [i \in 1..Len(tpl.substitutions) |->
        IF i - 1 >= maxParams THEN sqlify(tpl.substitutions[i])
        ELSE tpl.substitutions[i]]

trimParameters(tpl) == nest(tpl.callSite, TrimmedSubstitutions(tpl))

-----------------------------------------------------------------------------
(* The driver's tagged-template query: one placeholder per value, one per      *)
(* element of an array value, comma-joined; named @p1, @p2, ... in order.      *)

PlaceholderName(n) == <<"@", "p">> \o NatText(n)

Placeholder(n) == [ph |-> TRUE, x |-> PlaceholderName(n), n |-> n]
Fragment(text) == [ph |-> FALSE, x |-> text, n |-> 0]

\* The command pieces and bound values of substitution i, numbered after `before`.
QueryItem(tpl, i, before) ==
    LET v == tpl.substitutions[i]
    IN IF v.t = "arr"
       THEN [command |-> [j \in 1..(2 * Len(v.a) - 1) |->
                            IF j % 2 = 1 THEN Placeholder(before + (j + 1) \div 2)
                            ELSE Fragment(<<",", " ">>)]
                         \o <<Fragment(tpl.callSite[i + 1])>>,
             values |-> v.a]
       ELSE [command |-> <<Placeholder(before + 1), Fragment(tpl.callSite[i + 1])>>,
             values |-> <<v>>]

RECURSIVE QueryRange(_, _, _, _)
QueryRange(tpl, lo, hi, before) ==
    IF lo > hi THEN [command |-> <<>>, values |-> <<>>]
    ELSE IF lo = hi THEN QueryItem(tpl, lo, before)
    ELSE LET mid == (lo + hi) \div 2
             left == QueryRange(tpl, lo, mid, before)
             right == QueryRange(tpl, mid + 1, hi, before + Len(left.values))
         IN [command |-> left.command \o right.command,
             values |-> left.values \o right.values]

\* request.query(...template): the statement text pieces and the bound values.
query(tpl) ==
    LET r == QueryRange(tpl, 1, Len(tpl.substitutions), 0)
    IN [command |-> <<Fragment(tpl.callSite[1])>> \o r.command,
        values |-> r.values]

CommandText(command) == Concat([i \in 1..Len(command) |-> command[i].x])

IsPlaceholder(piece) == piece.ph

Placeholders(command) == SelectSeq(command, IsPlaceholder)

-----------------------------------------------------------------------------
(* JavaScript object helpers used by objectCriteria *)

\* key.startsWith('$')
StartsWithDollar(key) == Len(key) >= 1 /\ key[1] = "$"

\* Object.entries(v): an object's own entries; an array's and a string's indexed
\* elements; none for a number.
ObjectEntries(v) ==
    CASE v.t = "obj" -> v.e
      [] v.t = "arr" -> [i \in 1..Len(v.a) |-> <<NatText(i - 1), v.a[i]>>]
      [] v.t = "str" -> [i \in 1..Len(v.s) |-> <<NatText(i - 1), Str(<<v.s[i]>>)>>]
      [] OTHER -> <<>>

\* Object.keys(v)
ObjectKeys(v) == [i \in 1..Len(ObjectEntries(v)) |-> ObjectEntries(v)[i][1]]

SomeStartsWithDollar(keys) == \E i \in 1..Len(keys) : StartsWithDollar(keys[i])

\* Truthiness of a value (the `value &&` test).
Truthy(v) ==
    CASE IsNullish(v) -> FALSE
      [] v.t = "nan" -> FALSE
      [] v.t = "num" -> v.n # 0
      [] v.t = "str" -> v.s # <<>>
      [] OTHER -> TRUE

\* A callback of Array.prototype.map that throws ends the map: the outcome of a
\* mapped list is its first thrown error, if any.
Completed(results) == \A i \in 1..Len(results) : ~IsError(results[i])

FirstThrown(results) ==
    results[CHOOSE i \in 1..Len(results) :
               IsError(results[i]) /\ \A j \in 1..(i - 1) : ~IsError(results[j])]

CannotMix == Thrown("Error", <<"C", "a", "n", "n", "o", "t", " ", "m", "i", "x", " ", "d", "i", "r", "e", "c", "t", "i", "v", "e", "s", " ", "w", "i", "t", "h", " ", "f", "i", "e", "l", "d", "s">>)
NotAFunction(callee) == Thrown("TypeError", callee \o <<" ", "i", "s", " ", "n", "o", "t", " ", "a", " ", "f", "u", "n", "c", "t", "i", "o", "n">>)
ReduceOfEmpty == Thrown("TypeError", <<"R", "e", "d", "u", "c", "e", " ", "o", "f", " ", "e", "m", "p", "t", "y", " ", "a", "r", "r", "a", "y", " ", "w", "i", "t", "h", " ", "n", "o", " ", "i", "n", "i", "t", "i", "a", "l", " ", "v", "a", "l", "u", "e">>)
CannotReadMap(v) ==
    Thrown("TypeError", <<"C", "a", "n", "n", "o", "t", " ", "r", "e", "a", "d", " ", "p", "r", "o", "p", "e", "r", "t", "i", "e", "s", " ", "o", "f", " ">> \o JsString(v) \o <<" ", "(", "r", "e", "a", "d", "i", "n", "g", " ", Apostrophe, "m", "a", "p", Apostrophe, ")">>)
NullToObject == Thrown("TypeError", <<"C", "a", "n", "n", "o", "t", " ", "c", "o", "n", "v", "e", "r", "t", " ", "u", "n", "d", "e", "f", "i", "n", "e", "d", " ", "o", "r", " ", "n", "u", "l", "l", " ", "t", "o", " ", "o", "b", "j", "e", "c", "t">>)

-----------------------------------------------------------------------------
(* Table property descriptors, as objectCriteria reads them *)

Times100 == "v => v * 100"
Identity == "v => v"

\* Number(v) for the operand of `v * 100`; nan when it is not a number. The
\* strings of the model are not numeric unless empty.
RECURSIVE ToNumber(_)
ToNumber(v) ==
    CASE v.t = "num" -> [nan |-> FALSE, n |-> v.n]
      [] v.t = "null" -> [nan |-> FALSE, n |-> 0]
      [] v.t = "str" -> [nan |-> v.s # <<>>, n |-> 0]
      [] v.t = "arr" ->
            IF Len(v.a) = 0 THEN [nan |-> FALSE, n |-> 0]
            ELSE IF Len(v.a) = 1 THEN ToNumber(v.a[1])
            ELSE [nan |-> TRUE, n |-> 0]
      [] OTHER -> [nan |-> TRUE, n |-> 0]

\* The function the caller gave to Table.property.
Apply(fn, v) ==
    IF fn = Times100
    THEN IF ToNumber(v).nan THEN NaN ELSE Num(ToNumber(v).n * 100)
    ELSE v

\* descriptor.encode: v => (v === null || v === undefined) ? null : encode(v)
DescriptorEncode(descriptor, v) ==
    IF IsNullish(v) THEN Null ELSE Apply(descriptor.encode, v)

\* descriptor.decode: v => (v === null || v === undefined) ? null : decode(v)
DescriptorDecode(descriptor, v) ==
    IF IsNullish(v) THEN Null ELSE Apply(descriptor.decode, v)

\* Map.prototype.has / get on the ordered list of <<name, descriptor>>.
MapHas(map, name) == \E i \in 1..Len(map) : map[i][1] = name

MapGet(map, name) == map[CHOOSE i \in 1..Len(map) : map[i][1] = name][2]

-----------------------------------------------------------------------------
(* Table: constructor, property, extends *)

\* The `type` argument of property: a type name, or whatever else was passed.
TypeName(name) == [t |-> "type", name |-> name]

\* The descriptor property() stores; encode and decode name the caller's functions,
\* which DescriptorEncode / DescriptorDecode wrap.
Descriptor(type, encodeFn, decodeFn) ==
    [t |-> "descriptor", type |-> type, encode |-> encodeFn, decode |-> decodeFn]

\* this.jsonField = options.jsonField || null
jsonField(opts) == IF Truthy(opts.jsonField) THEN opts.jsonField ELSE Null

\* this.idField = options.idField || 'id'
idField(opts) == IF Truthy(opts.idField) THEN opts.idField ELSE Str(<<"i", "d">>)

\* Map.prototype.set: a present key keeps its place and takes the new value.
MapSet(map, name, d) ==
    IF MapHas(map, name)
    THEN [i \in 1..Len(map) |-> IF map[i][1] = name THEN <<name, d>> ELSE map[i]]
    ELSE Append(map, <<name, d>>)

AlreadyDefined(name) == Thrown("Error", <<"P", "r", "o", "p", "e", "r", "t", "y", " ">> \o name \o <<" ", "a", "l", "r", "e", "a", "d", "y", " ", "d", "e", "f", "i", "n", "e", "d", ".">>)
JsonFieldAsProperty == Thrown("Error", <<"D", "o", "n", Apostrophe, "t", " ", "s", "p", "e", "c", "i", "f", "y", " ", "t", "h", "e", " ", "J", "S", "O", "N", " ", "f", "i", "e", "l", "d", " ", "a", "s", " ", "a", " ", "p", "r", "o", "p", "e", "r", "t", "y", ".">>)
IdFieldAsProperty == Thrown("Error", <<"D", "o", "n", Apostrophe, "t", " ", "s", "p", "e", "c", "i", "f", "y", " ", "t", "h", "e", " ", "I", "D", " ", "f", "i", "e", "l", "d", " ", "a", "s", " ", "a", " ", "p", "r", "o", "p", "e", "r", "t", "y", ".">>)
Returned == [t |-> "returned"]

propertyWithoutIdCheck(props, opts, name, type, encodeFn, decodeFn) ==
    IF MapHas(props, name) THEN [properties |-> props, outcome |-> AlreadyDefined(name)]
    ELSE IF Str(name) = jsonField(opts)
    THEN [properties |-> props, outcome |-> JsonFieldAsProperty]
    ELSE [properties |-> MapSet(props, name, Descriptor(type, encodeFn, decodeFn)),
          outcome |-> Returned]

\* property(name, type, encode, decode) on a table with the registry props: the
\* registry afterwards and what the call did (returned, or the error thrown).
property(props, opts, name, type, encodeFn, decodeFn) ==
    IF MapHas(props, name) THEN [properties |-> props, outcome |-> AlreadyDefined(name)]
    ELSE IF Str(name) = jsonField(opts)
    THEN [properties |-> props, outcome |-> JsonFieldAsProperty]
    ELSE IF Str(name) = idField(opts)
    THEN [properties |-> props, outcome |-> IdFieldAsProperty]
    ELSE [properties |-> MapSet(props, name, Descriptor(type, encodeFn, decodeFn)),
          outcome |-> Returned]

\* The loop of extends from entry i on: this.property(name, opts) per entry of the
\* other table, the descriptor passed as the type and the codecs left to their
\* defaults; the first throw ends the loop.
RECURSIVE ExtendsFrom(_, _, _, _)
ExtendsFrom(props, opts, source, i) ==
    IF i > Len(source) THEN [properties |-> props, outcome |-> Returned]
    ELSE LET r == property(props, opts, source[i][1], source[i][2], Identity, Identity)
         IN IF IsError(r.outcome) THEN r
            ELSE ExtendsFrom(r.properties, opts, source, i + 1)

NotDefined(identifier) ==
    Thrown("ReferenceError", identifier \o <<" ", "i", "s", " ", "n", "o", "t", " ", "d", "e", "f", "i", "n", "e", "d">>)

\* extends(table). `for ([name, opts] of ...)` assigns to the undeclared identifiers
\* name and opts, in this order, in strict (class) code: the first one that is not
\* a property of the global object is a ReferenceError, before any property call.
\* globals is the set of the two that the global object has.
extends(props, opts, source, globals) ==
    IF Len(source) = 0 THEN [properties |-> props, outcome |-> Returned]
    ELSE IF "name" \notin globals
    THEN [properties |-> props, outcome |-> NotDefined(<<"n", "a", "m", "e">>)]
    ELSE IF "opts" \notin globals
    THEN [properties |-> props, outcome |-> NotDefined(<<"o", "p", "t", "s">>)]
    ELSE ExtendsFrom(props, opts, source, 1)

-----------------------------------------------------------------------------
(* util: parens, ops, objectCriteria *)

AND == <<" ", "A", "N", "D", " ">>
OR == <<" ", "O", "R", " ">>

RECURSIVE Reduce(_, _, _)
Reduce(arr, n, delim) ==
    IF n = 1 THEN arr[1] ELSE joinWith(Reduce(arr, n - 1, delim), arr[n], delim)

parensReversed(arr, delim) ==
    IF Len(arr) = 1 THEN arr[1]
    ELSE IF Len(arr) = 0 THEN ReduceOfEmpty
    ELSE nest(<<<<"(">>, <<")">>>>,
              <<Reduce([i \in 1..Len(arr) |-> arr[Len(arr) + 1 - i]], Len(arr), delim)>>)

\* arr.reduce(fn) without an initial value throws on an empty array.
parens(arr, delim) ==
    IF Len(arr) = 1 THEN arr[1]
    ELSE IF Len(arr) = 0 THEN ReduceOfEmpty
    ELSE nest(<<<<"(">>, <<")">>>>, <<Reduce(arr, Len(arr), delim)>>)

K_eq == <<"$", "e", "q">>
K_ne == <<"$", "n", "e">>
K_gt == <<"$", "g", "t">>
K_gte == <<"$", "g", "t", "e">>
K_lt == <<"$", "l", "t">>
K_lte == <<"$", "l", "t", "e">>
K_in == <<"$", "i", "n">>
K_nin == <<"$", "n", "i", "n">>
K_and == <<"$", "a", "n", "d">>
K_or == <<"$", "o", "r">>

OpKeys == {K_eq, K_ne, K_gt, K_gte, K_lt, K_lte, K_in, K_nin}

\* The text between the field and the value, and after the value.
OpText(key) ==
    CASE key = K_eq -> <<<<"]", " ", "=", " ">>, <<>>>>
      [] key = K_ne -> <<<<"]", " ", "!", "=", " ">>, <<>>>>
      [] key = K_gt -> <<<<"]", " ", ">", " ">>, <<>>>>
      [] key = K_gte -> <<<<"]", " ", ">", "=", " ">>, <<>>>>
      [] key = K_lt -> <<<<"]", " ", "<", " ">>, <<>>>>
      [] key = K_lte -> <<<<"]", " ", "<", "=", " ">>, <<>>>>
      [] key = K_in -> <<<<"]", " ", "i", "n", " ", "(">>, <<")">>>>
      [] key = K_nin -> <<<<"]", " ", "n", "o", "t", " ", "i", "n", " ", "(">>, <<")">>>>

\* ops[key](f, v): nest`[${raw(f)}] = ${v}` and its like; calling a key that ops
\* does not have is a TypeError.
ops(key, f, v) ==
    IF key \in OpKeys
    THEN nest(<<<<"[">>, OpText(key)[1], OpText(key)[2]>>, <<raw(f), v>>)
    ELSE NotAFunction(<<"o", "p", "s", "[", "k", "e", "y", "]">>)

encodeRaw(params, field, v) == v

\* encode(field, value) of objectCriteria
encode(params, field, v) ==
    IF MapHas(params, field) THEN DescriptorEncode(MapGet(params, field), v) ELSE v

RECURSIVE objectCriteria(_, _)

\* groups[key](value): $and and $or map objectCriteria over the array; v.map of
\* null or undefined, and of a value without a map method, is a TypeError.
groups(key, v, params) ==
    IF key \notin {K_and, K_or} THEN NotAFunction(<<"g", "r", "o", "u", "p", "s", "[", "k", "e", "y", "]">>)
    ELSE IF IsNullish(v) THEN CannotReadMap(v)
    ELSE IF v.t # "arr" THEN NotAFunction(<<"v", ".", "m", "a", "p">>)
    ELSE LET compiled == [i \in 1..Len(v.a) |-> objectCriteria(v.a[i], params)]
         IN IF Completed(compiled)
            THEN parens(compiled, IF key = K_and THEN AND ELSE OR)
            ELSE FirstThrown(compiled)

\* One entry of the group branch.
GroupEntry(key, v, params) ==
    IF ~StartsWithDollar(key) THEN CannotMix ELSE groups(key, v, params)

\* One entry of an operator mapping.
OperatorEntry(field, key, v, params) ==
    IF ~StartsWithDollar(key) THEN CannotMix ELSE ops(key, field, encode(params, field, v))

\* One entry of the field branch.
FieldEntry(field, v, params) ==
    IF Truthy(v) /\ SomeStartsWithDollar(ObjectKeys(v))
    THEN LET es == ObjectEntries(v)
             compiled == [i \in 1..Len(es) |-> OperatorEntry(field, es[i][1], es[i][2], params)]
         IN IF Completed(compiled) THEN parens(compiled, AND) ELSE FirstThrown(compiled)
    ELSE ops(K_eq, field, encode(params, field, v))

objectCriteria(o, params) ==
    IF IsNullish(o) THEN NullToObject
    ELSE IF Len(ObjectKeys(o)) = 0 THEN raw(<<"1", " ", "=", " ", "1">>)
    ELSE LET es == ObjectEntries(o)
             compiled ==
                 IF SomeStartsWithDollar(ObjectKeys(o))
                 THEN [i \in 1..Len(es) |-> GroupEntry(es[i][1], es[i][2], params)]
                 ELSE [i \in 1..Len(es) |-> FieldEntry(es[i][1], es[i][2], params)]
         IN IF Completed(compiled) THEN parens(compiled, AND) ELSE FirstThrown(compiled)

-----------------------------------------------------------------------------
(* Inputs *)

MaxStrLen == 3
MaxArrLen == 2
MaxTail == 3
MaxRuns == 2
MaxDebug == 1

SqlChars == {"a", "N", Apostrophe}

Strings == UNION {[1..k -> SqlChars] : k \in 0..MaxStrLen}

Scalars == {Num(0), Num(7), Num(-12), Str(<<"o", Apostrophe, "k">>), Str(<<>>), Null}

Arrays == UNION {{Arr(a) : a \in [1..k -> {Num(7), Str(<<Apostrophe>>), Null}]} : k \in 0..MaxArrLen}

SqlifyInputs ==
    {Str(s) : s \in Strings} \cup Scalars \cup Arrays
        \cup {raw(sqlifyString(<<"o", Apostrophe>>)), Arr(<<Arr(<<Num(1), Num(2)>>), Num(3)>>),
              NaN, Undefined}

\* Substitutions of a tagged-template call: `fill` numbers, then the tail.
InputSubstitutions(fill, tail) == [i \in 1..fill |-> Num(i % 3)] \o tail

InputCallSite(n) ==
    [i \in 1..(n + 1) |-> IF i = 1 THEN <<"(">> ELSE IF i = n + 1 THEN <<")">> ELSE <<",">>]

FillCounts == {0} \cup ((maxParams - MaxTail)..(maxParams - 1))

TailValues == {Num(7), Str(<<"o", Apostrophe>>), Arr(<<Num(1), Num(2), Num(3)>>), escapeField(<<"t">>)}

Tails == UNION {[1..k -> TailValues] : k \in 0..MaxTail}

MaxOps == 2
MaxFields == 2
MaxGroup == 2
MaxGroupKeys == 2

F_id == <<"i", "d">>
F_amount == <<"a", "m", "o", "u", "n", "t">>
F_name == <<"n", "a", "m", "e">>
K_foo == <<"$", "f", "o", "o">>
Plain_foo == <<"f", "o", "o">>

\* The registry of a table with property('amount', 'Number', v => v * 100) and
\* property('name', 'String').
TableProperties ==
    << <<F_amount, Descriptor(TypeName("Number"), Times100, Identity)>>,
       <<F_name, Descriptor(TypeName("String"), Identity, Identity)>> >>

\* Sequences of 1..n entries taken from pool, no key twice.
EntryLists(pool, n) ==
    UNION {{es \in [1..k -> pool] : \A i, j \in 1..k : i # j => es[i][1] # es[j][1]} : k \in 1..n}

Leaves == {Num(5), Null, Undefined, Str(<<"o", Apostrophe>>)}
SetValue == Arr(<<Num(1), Num(2), Num(3)>>)

SingleOperators ==
    {<<k, Num(5)>> : k \in {K_eq, K_ne, K_gt, K_gte, K_lt, K_lte}}
        \cup {<<K_in, SetValue>>, <<K_nin, SetValue>>, <<K_in, Arr(<<>>)>>, <<K_eq, Null>>,
              <<K_foo, Num(5)>>}

MixedOperators ==
    {<<K_gt, Num(5)>>, <<K_lte, Num(7)>>, <<K_in, SetValue>>, <<K_foo, Num(5)>>,
     <<Plain_foo, Num(5)>>}

OperatorMappings ==
    {Obj(<<e>>) : e \in SingleOperators} \cup {Obj(es) : es \in EntryLists(MixedOperators, MaxOps)}

FieldPool ==
    {<<f, v>> : f \in {F_id, F_amount, F_name},
                v \in {Num(5), Null, Obj(<<<<K_gt, Num(5)>>, <<K_lte, Num(7)>>>>),
                       Obj(<<<<K_in, SetValue>>>>)}}

FieldObjects ==
    {Obj(<<>>)}
        \cup {Obj(<<<<f, v>>>>) : f \in {F_id, F_amount, F_name},
                                  v \in Leaves \cup {SetValue} \cup OperatorMappings}
        \cup {Obj(es) : es \in EntryLists(FieldPool, MaxFields)}

\* What the arrays of $and / $or hold: field objects, sound and unsound, and groups.
GroupElements ==
    {Obj(<<<<F_id, Num(5)>>>>),
     Obj(<<<<F_amount, Num(7)>>>>),
     Obj(<<<<F_amount, Obj(<<<<K_gt, Num(5)>>, <<K_lte, Num(7)>>>>)>>, <<F_id, Null>>>>),
     Obj(<<>>),
     Obj(<<<<F_id, Obj(<<<<K_foo, Num(5)>>>>)>>>>),
     Obj(<<<<K_or, Arr(<<Obj(<<<<F_id, Num(1)>>>>), Obj(<<<<F_amount, Num(2)>>>>)>>)>>>>),
     Obj(<<<<K_and, Arr(<<Obj(<<<<F_name, Str(<<"a">>)>>>>)>>)>>>>),
     Obj(<<<<K_or, Arr(<<Obj(<<<<F_id, Num(1)>>>>)>>)>>, <<F_id, Num(5)>>>>)}

GroupArrays == UNION {{Arr(a) : a \in [1..k -> GroupElements]} : k \in 0..MaxGroup}

GroupPool ==
    {<<K_and, Arr(<<Obj(<<<<F_id, Num(5)>>>>)>>)>>,
     <<K_or, Arr(<<Obj(<<<<F_id, Num(1)>>>>), Obj(<<<<F_amount, Num(2)>>>>)>>)>>,
     <<K_or, Arr(<<>>)>>,
     <<K_foo, Arr(<<>>)>>,
     <<K_and, Null>>,
     <<K_or, Undefined>>,
     <<K_and, Num(5)>>,
     <<F_id, Num(5)>>}

GroupObjects ==
    {Obj(<<<<k, a>>>>) : k \in {K_and, K_or, K_foo}, a \in GroupArrays}
        \cup {Obj(es) : es \in {x \in EntryLists(GroupPool, MaxGroupKeys) :
                                    SomeStartsWithDollar([i \in 1..Len(x) |-> x[i][1]])}}

CriteriaObjects == FieldObjects \cup GroupObjects

MaxCalls == 3

F_key == <<"k", "e", "y">>
F_json == <<"j", "s", "o", "n">>

TableOptions ==
    {[jsonField |-> j, idField |-> i] : j \in {Null, Str(F_json)}, i \in {Null, Str(<<>>), Str(F_key)}}

\* The property calls tried: <<name, type, encode>>.
PropertyCalls ==
    {<<n, TypeName("String"), Identity>> : n \in {F_id, F_key, F_json, F_name}}
        \cup {<<F_amount, TypeName("Number"), Times100>>, <<F_amount, TypeName("String"), Identity>>}

\* The registries of the tables handed to extends.
ExtendsSources ==
    {<<>>,
     <<<<F_name, Descriptor(TypeName("String"), Identity, Identity)>>>>,
     TableProperties \o <<<<F_id, Descriptor(TypeName("Number"), Identity, Identity)>>>>}

MaxTransactions == 2

FnResults == {Num(1), Null, Str(<<"o", "k">>)}

DriverErrors == {Thrown("TransactionError", <<"E", "A", "B", "O", "R", "T">>),
                 Thrown("RequestError", <<"E", "R", "E", "Q">>)}

FnErrors == DriverErrors \cup {Thrown("Error", <<"u", "s", "e", "r">>)}

-----------------------------------------------------------------------------
(* Idle parts: the components a specification does not exercise *)

SqlifyIdle == value = Null /\ literal = NotRun

TemplateIdle ==
    /\ template = NotRun
    /\ original = NotRun
    /\ tplIsArray = FALSE
    /\ runs = <<>>
    /\ debug = <<>>

CriteriaIdle == obj = NotRun /\ parameters = <<>> /\ criteria = NotRun

TableIdle == properties = <<>> /\ options = NotRun /\ lastCall = NotRun

TxIdle ==
    /\ txPc = "idle"
    /\ result = NotRun
    /\ userError = NotRun
    /\ rolledBack = FALSE
    /\ txLog = <<>>
    /\ txLeft = 0
    /\ hasBind = FALSE

-----------------------------------------------------------------------------
(* sqlify on its own *)

InitSqlify ==
    /\ value \in SqlifyInputs
    /\ literal = NotRun
    /\ template = NotRun /\ original = NotRun /\ runs = <<>> /\ debug = <<>>
    /\ tplIsArray \in BOOLEAN
    /\ CriteriaIdle /\ TableIdle /\ TxIdle

Sqlify ==
    /\ literal = NotRun
    /\ literal' = sqlify(value)
    /\ UNCHANGED <<value, templateVars, criteriaVars, tableVars, txVars>>

NextSqlify == Sqlify

SpecSqlify == InitSqlify /\ [][NextSqlify]_vars

-----------------------------------------------------------------------------
(* Session.sql: the template, its execution (then) and its toString *)

InitTemplate ==
    /\ \E fill \in FillCounts, tail \in Tails :
          template = nest(InputCallSite(fill + Len(tail)), InputSubstitutions(fill, tail))
    /\ original = template
    /\ tplIsArray \in BOOLEAN
    /\ runs = <<>>
    /\ debug = <<>>
    /\ SqlifyIdle /\ CriteriaIdle /\ TableIdle /\ TxIdle

\* template.then: trimParameters(template), which overwrites entries of
\* template.substitutions, then request.query(...trimmedTemplate).
Then ==
    /\ Len(runs) < MaxRuns
    /\ runs' = Append(runs, trimParameters(template))
    /\ template' = [template EXCEPT !.substitutions = TrimmedSubstitutions(template)]
    /\ UNCHANGED <<original, tplIsArray, debug, sqlifyVars, criteriaVars, tableVars, txVars>>

\* template.toString(), also called for err.sql when the query fails.
toString ==
    /\ Len(debug) < MaxDebug
    /\ debug' = Append(debug, [after |-> Len(runs), sql |-> sqlifyTemplate(template)])
    /\ UNCHANGED <<template, original, tplIsArray, runs, sqlifyVars, criteriaVars,
                   tableVars, txVars>>

NextTemplate == Then \/ toString

SpecTemplate == InitTemplate /\ [][NextTemplate]_vars

-----------------------------------------------------------------------------
(* objectCriteria, as Table.get and Table.delete call it *)

InitCriteria ==
    /\ obj \in CriteriaObjects
    /\ parameters \in {<<>>, TableProperties}
    /\ criteria = NotRun
    /\ SqlifyIdle /\ TemplateIdle /\ TableIdle /\ TxIdle

Compile ==
    /\ criteria = NotRun
    /\ criteria' = objectCriteria(obj, parameters)
    /\ UNCHANGED <<obj, parameters, sqlifyVars, templateVars, tableVars, txVars>>

NextCriteria == Compile

SpecCriteria == InitCriteria /\ [][NextCriteria]_vars

-----------------------------------------------------------------------------
(* Table: a definition, as a sequence of property and extends calls *)

InitTable ==
    /\ options \in TableOptions
    /\ properties = <<>>
    /\ lastCall = NotRun
    /\ SqlifyIdle /\ TemplateIdle /\ CriteriaIdle /\ TxIdle

CallsMade == IF lastCall = NotRun THEN 0 ELSE lastCall.n

Property ==
    /\ CallsMade < MaxCalls
    /\ \E call \in PropertyCalls :
          LET r == property(properties, options, call[1], call[2], call[3], Identity)
          IN /\ properties' = r.properties
             /\ lastCall' = [t |-> "property", n |-> CallsMade + 1, name |-> call[1],
                             before |-> properties, outcome |-> r.outcome]
    /\ UNCHANGED <<options, sqlifyVars, templateVars, criteriaVars, txVars>>

Extends ==
    /\ CallsMade < MaxCalls
    /\ \E source \in ExtendsSources, globals \in SUBSET {"name", "opts"} :
          LET r == extends(properties, options, source, globals)
          IN /\ properties' = r.properties
             /\ lastCall' = [t |-> "extends", n |-> CallsMade + 1, name |-> <<>>,
                             before |-> properties, outcome |-> r.outcome]
    /\ UNCHANGED <<options, sqlifyVars, templateVars, criteriaVars, txVars>>

NextTable == Property \/ Extends

SpecTable == InitTable /\ [][NextTable]_vars

-----------------------------------------------------------------------------
(* Session.transaction(fn): the begin callback, step by step *)

Event(ev, x) == [ev |-> ev, x |-> x]

\* The errors the promise is rejected with.
ManuallyRolledBack(e) ==
    [t |-> "error", name |-> "Error", kind |-> "manually rolled back",
     userError |-> e, rollbackError |-> NotRun]
RollbackFailed(e, re) ==
    [t |-> "error", name |-> "Error", kind |-> "rollback failed",
     userError |-> e, rollbackError |-> re]
AutomaticallyRolledBack(e) ==
    [t |-> "error", name |-> "Error", kind |-> "automatically rolled back",
     userError |-> e, rollbackError |-> NotRun]

InitTx ==
    /\ txPc = "idle"
    /\ result = NotRun
    /\ userError = NotRun
    /\ rolledBack = FALSE
    /\ txLog = <<>>
    /\ txLeft = MaxTransactions
    /\ hasBind \in BOOLEAN
    /\ SqlifyIdle /\ TemplateIdle /\ CriteriaIdle /\ TableIdle

\* What transaction() never changes: the driver, and the other components.
TxOthers == <<hasBind, sqlifyVars, templateVars, criteriaVars, tableVars>>

\* new Session({transaction, parent: this}): the constructor stores the driver's
\* Transaction object as this.transaction and then calls this[fn].bind(this) for
\* fn = 'transaction', which is that object and no longer the method.
BindNotAFunction ==
    Thrown("TypeError", <<"t", "h", "i", "s", "[", "f", "n", "]", ".", "b", "i", "n", "d", " ", "i", "s", " ", "n", "o", "t", " ", "a", " ", "f", "u", "n", "c", "t", "i", "o", "n">>)

\* transaction(fn): up to `await (this.pool || this.transaction)`
Transaction ==
    /\ txPc \in {"idle", "done"}
    /\ txLeft > 0
    /\ txLeft' = txLeft - 1
    /\ txPc' = "pool"
    /\ result' = NotRun
    /\ userError' = NotRun
    /\ rolledBack' = FALSE
    /\ txLog' = <<Event("transaction called", NotRun)>>
    /\ UNCHANGED TxOthers

\* The pool promise rejects (the connection failed): the async function rejects with
\* that error and begin is never requested.
PoolRejects ==
    /\ txPc = "pool"
    /\ \E err \in DriverErrors :
          txLog' = txLog \o <<Event("pool failed", err), Event("reject", err)>>
    /\ txPc' = "done"
    /\ UNCHANGED <<result, userError, rolledBack, txLeft, TxOthers>>

\* The pool promise resolves: new sql.Transaction(pool), new Promise,
\* transaction.begin(callback)
PoolResolves ==
    /\ txPc = "pool"
    /\ txLog' = Append(txLog, Event("begin requested", NotRun))
    /\ txPc' = "begin"
    /\ UNCHANGED <<result, userError, rolledBack, txLeft, TxOthers>>

\* callback(err): if (err) return reject(err)
BeginFails ==
    /\ txPc = "begin"
    /\ \E err \in DriverErrors :
          txLog' = txLog \o <<Event("begin failed", err), Event("reject", err)>>
    /\ txPc' = "done"
    /\ UNCHANGED <<result, userError, rolledBack, txLeft, TxOthers>>

\* catch (userError): rollback is requested unless rolledBack; otherwise reject at once
Catch(log, thrown, e) ==
    IF ~rolledBack
    THEN /\ txLog' = log \o <<Event(thrown, e), Event("rollback requested", NotRun)>>
         /\ userError' = e
         /\ txPc' = "rollback"
    ELSE /\ txLog' = log \o <<Event(thrown, e), Event("reject", AutomaticallyRolledBack(e))>>
         /\ userError' = e
         /\ txPc' = "done"

\* callback(): rolledBack = false, the listener is attached, then inside the try
\* new Session({transaction, parent: this}) and fn(transSession). The constructor
\* throws unless the Transaction object has a bind method: fn is then never called
\* and the catch block runs at once (rolledBack is still false).
BeginSucceeds ==
    /\ txPc = "begin"
    /\ rolledBack' = FALSE
    /\ IF hasBind
       THEN /\ txLog' = Append(txLog, Event("began", NotRun))
            /\ txPc' = "fn"
            /\ UNCHANGED userError
       ELSE Catch(Append(txLog, Event("began", NotRun)), "new Session threw", BindNotAFunction)
    /\ UNCHANGED <<result, txLeft, TxOthers>>

\* The driver emits 'rollback' (the transaction was aborted): the listener sets the flag.
DriverEmitsRollback ==
    /\ txPc \in {"fn", "commit"}
    /\ ~rolledBack
    /\ rolledBack' = TRUE
    /\ txLog' = Append(txLog, Event("rollback emitted", NotRun))
    /\ UNCHANGED <<txPc, result, userError, txLeft, TxOthers>>

\* result = await fn(transSession); then transaction.commit() is called
FnResolves ==
    /\ txPc = "fn"
    /\ \E v \in FnResults :
          /\ result' = v
          /\ txLog' = txLog \o <<Event("fn resolved", v), Event("commit requested", NotRun)>>
    /\ txPc' = "commit"
    /\ UNCHANGED <<userError, rolledBack, txLeft, TxOthers>>

FnRejects ==
    /\ txPc = "fn"
    /\ \E e \in FnErrors : Catch(txLog, "fn rejected", e)
    /\ UNCHANGED <<result, rolledBack, txLeft, TxOthers>>

\* await transaction.commit() returns: resolve(result)
CommitSucceeds ==
    /\ txPc = "commit"
    /\ txLog' = txLog \o <<Event("commit done", NotRun), Event("resolve", result)>>
    /\ txPc' = "done"
    /\ UNCHANGED <<result, userError, rolledBack, txLeft, TxOthers>>

CommitFails ==
    /\ txPc = "commit"
    /\ \E e \in DriverErrors : Catch(txLog, "commit failed", e)
    /\ UNCHANGED <<result, rolledBack, txLeft, TxOthers>>

\* await transaction.rollback() returns (the driver emits 'rollback' on the way)
RollbackSucceeds ==
    /\ txPc = "rollback"
    /\ rolledBack' = TRUE
    /\ txLog' = txLog \o <<Event("rollback done", NotRun),
                           Event("reject", ManuallyRolledBack(userError))>>
    /\ txPc' = "done"
    /\ UNCHANGED <<result, userError, txLeft, TxOthers>>

RollbackFails ==
    /\ txPc = "rollback"
    /\ \E re \in DriverErrors :
          txLog' = txLog \o <<Event("rollback failed", re),
                              Event("reject", RollbackFailed(userError, re))>>
    /\ txPc' = "done"
    /\ UNCHANGED <<result, userError, rolledBack, txLeft, TxOthers>>

NextTx ==
    \/ Transaction
    \/ PoolRejects
    \/ PoolResolves
    \/ BeginFails
    \/ BeginSucceeds
    \/ DriverEmitsRollback
    \/ FnResolves
    \/ FnRejects
    \/ CommitSucceeds
    \/ CommitFails
    \/ RollbackSucceeds
    \/ RollbackFails

\* The pool promise settles, the driver calls back on begin, commit and rollback,
\* and fn settles.
TxFairness ==
    /\ WF_vars(PoolRejects \/ PoolResolves)
    /\ WF_vars(BeginFails \/ BeginSucceeds)
    /\ WF_vars(FnResolves \/ FnRejects)
    /\ WF_vars(CommitSucceeds \/ CommitFails)
    /\ WF_vars(RollbackSucceeds \/ RollbackFails)

SpecTx == InitTx /\ [][NextTx]_vars /\ TxFairness

-----------------------------------------------------------------------------
(* Properties of sqlify and of the template compiler *)

\* A SQL string literal N'...' read back: the text between the delimiters with
\* each doubled apostrophe undoubled; not ok when the text is not such a literal.
RECURSIVE Undouble(_, _, _)
Undouble(body, i, acc) ==
    IF i > Len(body) THEN [ok |-> TRUE, s |-> acc]
    ELSE IF body[i] # Apostrophe THEN Undouble(body, i + 1, Append(acc, body[i]))
    ELSE IF i + 1 <= Len(body) /\ body[i + 1] = Apostrophe
         THEN Undouble(body, i + 2, Append(acc, Apostrophe))
    ELSE [ok |-> FALSE, s |-> <<>>]

ParseSqlLiteral(text) ==
    IF \/ Len(text) < 3
       \/ text[1] # "N"
       \/ text[2] # Apostrophe
       \/ text[Len(text)] # Apostrophe
    THEN [ok |-> FALSE, s |-> <<>>]
    ELSE Undouble(SubSeq(text, 3, Len(text) - 1), 1, <<>>)

ApostropheCount(text) == Cardinality({i \in 1..Len(text) : text[i] = Apostrophe})

\* C7 (round-trip literal safety): the literal sqlify makes of a string is the text
\* N'...' with every apostrophe of the string doubled, and reading it back as a SQL
\* string literal gives the string exactly.
C7_RoundTrip ==
    (literal # NotRun /\ value.t = "str") =>
        /\ literal.substitutions = <<>>
        /\ Len(literal.callSite) = 1
        /\ ParseSqlLiteral(literal.callSite[1]) = [ok |-> TRUE, s |-> value.s]
        /\ ApostropheCount(literal.callSite[1]) = 2 * ApostropheCount(value.s) + 2

C7_Witness ==
    /\ value = Str(<<"a", Apostrophe, Apostrophe>>)
    /\ literal # NotRun
    /\ literal.callSite[1] =
          <<"N", Apostrophe, "a", Apostrophe, Apostrophe, Apostrophe, Apostrophe, Apostrophe>>

\* The values of a template one by one, each element of an array counted separately.
FlatValues(tpl) == query(tpl).values

\* The statement the cap asks for: every value past position maxParams as its
\* escaped literal, the others as placeholders.
CappedCommand(tpl) ==
    LET q == query(tpl)
    IN [i \in 1..Len(q.command) |->
          IF q.command[i].ph /\ q.command[i].n > maxParams
          THEN Fragment(TemplateToString(sqlify(q.values[q.command[i].n])))
          ELSE q.command[i]]

\* C1 (parameter cap), as claimed: a template with more than maxParams flattened
\* values is compiled to exactly maxParams placeholders and bound values, with every
\* flattened value past the cap inlined as its literal.
C1_ParameterCap ==
    (Len(runs) >= 1 /\ Len(FlatValues(original)) > maxParams) =>
        LET q == query(runs[1])
        IN /\ Len(q.values) = maxParams
           /\ Len(Placeholders(q.command)) = maxParams
           /\ q.values = SubSeq(FlatValues(original), 1, maxParams)
           /\ CommandText(q.command) = CommandText(CappedCommand(original))

\* C8 (purity), as claimed: compiling leaves the template unchanged, so a second
\* execution hands the driver the same text and bound values as the first.
C8_Purity ==
    /\ Len(runs) >= 1 => template = original
    /\ Len(debug) >= 1 /\ Len(runs) = 0 => template = original
    /\ Len(runs) >= 2 =>
          /\ CommandText(query(runs[2]).command) = CommandText(query(runs[1]).command)
          /\ query(runs[2]).values = query(runs[1]).values

-----------------------------------------------------------------------------
(* Properties of the criteria compiler *)

Compiled == criteria # NotRun /\ ~IsError(criteria)

IsOperatorMapping(v) == Truthy(v) /\ SomeStartsWithDollar(ObjectKeys(v))

\* The value a comparison of `field` binds: the descriptor's encode applied once to
\* the raw value when the field is registered, the raw value otherwise.
Bound(params, field, raw_value) ==
    IF \E i \in 1..Len(params) : params[i][1] = field
    THEN LET d == params[CHOOSE i \in 1..Len(params) : params[i][1] = field][2]
         IN IF raw_value.t \in {"null", "undefined"} THEN Null
            ELSE IF d.encode = Identity THEN raw_value
            ELSE IF ToNumber(raw_value).nan THEN NaN
            ELSE Num(100 * ToNumber(raw_value).n)
    ELSE raw_value

\* The values of an accepted criteria object in left-to-right discovery order, one
\* per comparison: groups element by element, fields entry by entry, operator
\* mappings operator by operator.
RECURSIVE Discovered(_, _)
Discovered(o, params) ==
    LET es == ObjectEntries(o)
    IN Concat([i \in 1..Len(es) |->
          IF StartsWithDollar(es[i][1])
          THEN Concat([j \in 1..Len(es[i][2].a) |-> Discovered(es[i][2].a[j], params)])
          ELSE IF IsOperatorMapping(es[i][2])
          THEN [j \in 1..Len(ObjectEntries(es[i][2])) |->
                   Bound(params, es[i][1], ObjectEntries(es[i][2])[j][2])]
          ELSE <<Bound(params, es[i][1], es[i][2])>>])

\* One bound value per element of a sequence value.
Elementwise(values) ==
    Concat([i \in 1..Len(values) |->
              IF values[i].t = "arr" THEN values[i].a ELSE <<values[i]>>])

\* C2 (placeholder/value alignment): the statement of an accepted criteria object
\* has as many placeholders as bound values, the placeholders are @p1, @p2, ... in
\* order of appearance, and the bound values are the criteria's values in
\* left-to-right discovery order, nested groups included.
C2_Alignment ==
    Compiled =>
        LET q == query(criteria)
            ph == Placeholders(q.command)
        IN /\ Len(ph) = Len(q.values)
           /\ \A i \in 1..Len(ph) : ph[i].n = i /\ ph[i].x = PlaceholderName(i)
           /\ \A i, j \in 1..Len(ph) : i < j => ph[i].x # ph[j].x
           /\ q.values = Elementwise(Discovered(obj, parameters))

C2_Witness ==
    /\ Compiled
    /\ obj = Obj(<<<<K_or, Arr(<<Obj(<<<<K_or, Arr(<<Obj(<<<<F_id, Num(1)>>>>),
                                                      Obj(<<<<F_amount, Num(2)>>>>)>>)>>>>),
                                 Obj(<<<<F_amount, Obj(<<<<K_gt, Num(5)>>, <<K_lte, Num(7)>>>>)>>,
                                       <<F_id, Null>>>>)>>)>>>>)
    /\ parameters = TableProperties
    /\ query(criteria).values = <<Num(1), Num(200), Num(500), Num(700), Null>>

\* C5 (encode pass-through): every comparison binds encode(raw value), applied
\* once, when its field is registered, and the raw value when it is not, at any
\* nesting depth and for every operator.
C5_EncodePassThrough ==
    Compiled => criteria.substitutions = Discovered(obj, parameters)

C5_Witness ==
    /\ Compiled
    /\ obj = Obj(<<<<F_amount, Num(5)>>>>)
    /\ parameters = TableProperties
    /\ criteria.substitutions = <<Num(500)>>
    /\ CommandText(query(criteria).command) = <<"[", "a", "m", "o", "u", "n", "t", "]", " ", "=", " ", "@", "p", "1">>

MixedKeys(keys) ==
    /\ \E i \in 1..Len(keys) : StartsWithDollar(keys[i])
    /\ \E i \in 1..Len(keys) : ~StartsWithDollar(keys[i])

\* A mapping of the criteria, at any nesting level, holds both a marker-prefixed
\* key and a plain key.
RECURSIVE HasMix(_)
HasMix(o) ==
    /\ o.t = "obj"
    /\ \/ MixedKeys(ObjectKeys(o))
       \/ \E i \in 1..Len(o.e) :
             \/ o.e[i][2].t = "obj" /\ MixedKeys(ObjectKeys(o.e[i][2]))
             \/ /\ o.e[i][2].t = "arr"
                /\ StartsWithDollar(o.e[i][1])
                /\ \E j \in 1..Len(o.e[i][2].a) : HasMix(o.e[i][2].a[j])

\* C3 (mixing rejection), as claimed: a criteria object with a mixed mapping at any
\* level is rejected with the error 'Cannot mix directives with fields'.
C3_MixRejected ==
    (criteria # NotRun /\ HasMix(obj)) => criteria = CannotMix

\* The marker-prefixed keys of the criteria that are no recognized operator (in an
\* operator mapping) and not $and / $or (at group level).
RECURSIVE Unrecognized(_)
Unrecognized(o) ==
    IF o.t # "obj" THEN {}
    ELSE UNION {
        LET k == o.e[i][1]
            v == o.e[i][2]
        IN IF StartsWithDollar(k)
           THEN (IF k \in {K_and, K_or} THEN {} ELSE {k})
                   \cup (IF v.t = "arr" THEN UNION {Unrecognized(v.a[j]) : j \in 1..Len(v.a)}
                         ELSE {})
           ELSE IF v.t = "obj"
           THEN {ObjectKeys(v)[j] : j \in {x \in 1..Len(v.e) :
                     StartsWithDollar(v.e[x][1]) /\ v.e[x][1] \notin OpKeys}}
           ELSE {}
        : i \in 1..Len(o.e)}

\* text contains the key
Names(text, key) ==
    \E i \in 1..(Len(text) - Len(key) + 1) : SubSeq(text, i, i + Len(key) - 1) = key

\* C4 (unrecognized key), as claimed: a criteria object with an unrecognized
\* marker-prefixed key is rejected with an error whose message names such a key.
C4_UnrecognizedNamed ==
    (criteria # NotRun /\ Unrecognized(obj) # {}) =>
        /\ IsError(criteria)
        /\ \E k \in Unrecognized(obj) : Names(criteria.message, k)

\* The parts joined by the delimiter, in order.
RECURSIVE Glue(_, _, _)
Glue(parts, n, delim) ==
    IF n = 0 THEN raw(<<>>)
    ELSE IF n = 1 THEN parts[1]
    ELSE JoinTpl(JoinTpl(Glue(parts, n - 1, delim), raw(delim)), parts[n])

\* Joined and wrapped in parentheses, unless there is exactly one part.
Wrapped(parts, delim) ==
    IF Len(parts) = 1 THEN parts[1]
    ELSE JoinTpl(JoinTpl(raw(<<"(">>), Glue(parts, Len(parts), delim)), raw(<<")">>))

AllGroupKeys(o) ==
    /\ o.t = "obj" /\ Len(o.e) >= 1
    /\ \A i \in 1..Len(o.e) : o.e[i][1] \in {K_and, K_or} /\ o.e[i][2].t = "arr"

AllPlainKeys(o) ==
    /\ o.t = "obj" /\ Len(o.e) >= 1
    /\ \A i \in 1..Len(o.e) : ~StartsWithDollar(o.e[i][1])

ElementsCompile(o, params) ==
    \A i \in 1..Len(o.e) : \A j \in 1..Len(o.e[i][2].a) :
        ~IsError(objectCriteria(o.e[i][2].a[j], params))

GroupExpected(entry, params) ==
    Wrapped([j \in 1..Len(entry[2].a) |-> objectCriteria(entry[2].a[j], params)],
            IF entry[1] = K_and THEN AND ELSE OR)

\* C6 (boolean grouping), as claimed: the elements of any $and / $or sequence are
\* compiled in input order, joined with ' AND ' / ' OR ' and parenthesized unless
\* the sequence has exactly one element; the entries of one object are ANDed and
\* parenthesized by the same rule.
C6_Grouping ==
    /\ (criteria # NotRun /\ AllGroupKeys(obj) /\ ElementsCompile(obj, parameters)) =>
          criteria = Wrapped([i \in 1..Len(obj.e) |-> GroupExpected(obj.e[i], parameters)], AND)
    /\ (Compiled /\ AllPlainKeys(obj)) =>
          criteria = Wrapped([i \in 1..Len(obj.e) |->
                                objectCriteria(Obj(<<obj.e[i]>>), parameters)], AND)

-----------------------------------------------------------------------------
(* Properties of the property registry *)

Reserved(name) == Str(name) = idField(options) \/ Str(name) = jsonField(options)

\* C9 (property registry): the registry never holds the id field or the JSON field
\* name; no call replaces or removes a registered descriptor; a property call that
\* names a registered or reserved name throws and leaves the registry as it was,
\* and any other property call adds exactly its descriptor.
C9_Registry ==
    /\ \A i \in 1..Len(properties) : ~Reserved(properties[i][1])
    /\ \A i, j \in 1..Len(properties) : i # j => properties[i][1] # properties[j][1]
    /\ lastCall # NotRun =>
          /\ Len(lastCall.before) <= Len(properties)
          /\ \A i \in 1..Len(lastCall.before) : properties[i] = lastCall.before[i]
    /\ (lastCall # NotRun /\ lastCall.t = "property") =>
          IF MapHas(lastCall.before, lastCall.name) \/ Reserved(lastCall.name)
          THEN IsError(lastCall.outcome) /\ properties = lastCall.before
          ELSE /\ lastCall.outcome = Returned
               /\ Len(properties) = Len(lastCall.before) + 1
               /\ properties[Len(properties)][1] = lastCall.name

C9_Witness ==
    /\ lastCall # NotRun
    /\ lastCall.t = "property"
    /\ lastCall.name = F_amount
    /\ lastCall.outcome = AlreadyDefined(F_amount)
    /\ Len(properties) = 2
    /\ properties[1] = <<F_amount, Descriptor(TypeName("Number"), Times100, Identity)>>
    /\ properties = lastCall.before

-----------------------------------------------------------------------------
(* Properties of Session.transaction *)

IsSettle(e) == e.ev \in {"resolve", "reject"}
IsRollbackRequest(e) == e.ev = "rollback requested"

Logged(ev) == \E i \in 1..Len(txLog) : txLog[i].ev = ev
IndexOf(ev) == CHOOSE i \in 1..Len(txLog) : txLog[i].ev = ev
Settlement == SelectSeq(txLog, IsSettle)

\* fn or the commit failed
Failed == Logged("fn rejected") \/ Logged("commit failed")
Failure == IF Logged("fn rejected") THEN txLog[IndexOf("fn rejected")]
           ELSE txLog[IndexOf("commit failed")]

\* the driver emitted 'rollback' before the failure was caught
EmittedBeforeCatch ==
    /\ Logged("rollback emitted")
    /\ IndexOf("rollback emitted") < (IF Logged("fn rejected") THEN IndexOf("fn rejected")
                                      ELSE IndexOf("commit failed"))

TxLifecycle ==
    /\ Len(Settlement) <= 1
    /\ Len(SelectSeq(txLog, IsRollbackRequest)) <= 1
    /\ (Logged("began") /\ txPc = "done") =>
          /\ Len(Settlement) = 1
          /\ IF Logged("fn resolved") /\ Logged("commit done")
             THEN /\ Settlement[1] = Event("resolve", txLog[IndexOf("fn resolved")].x)
                  /\ ~Logged("rollback requested")
             ELSE /\ Failed
                  /\ Settlement[1].ev = "reject"
                  /\ Settlement[1].x.userError = Failure.x
                  /\ Logged("rollback requested") <=> ~EmittedBeforeCatch
    /\ Logged("began") /\ Logged("resolve") => Logged("commit done") /\ ~Failed

\* C10 (transaction lifecycle), as claimed: once begin has succeeded fn runs with a
\* session bound to the transaction and the promise settles, exactly once: resolved
\* with fn's result when fn completed and the commit succeeded, otherwise (fn or
\* the commit failed) rejected with an error carrying that failure as userError and
\* never resolved; rollback is requested exactly once on failure, and not at all
\* when the driver had already emitted 'rollback'.
C10_TransactionLifecycle ==
    /\ []TxLifecycle
    /\ Logged("began") ~> (txPc = "done" /\ Len(Settlement) = 1)

====
